---- MODULE Spec2Model ----
(***************************************************************************)
(* Model of the GitHub/GitLab inventory scripts:                           *)
(*   - the CSV codec (stringifyCsvValue, writeCsv, parseCsv, readCsv),     *)
(*   - the keyed loaders and the archive cross-check (loadGithubReport,    *)
(*     loadGitlabReport, compare),                                         *)
(*   - the detail enrichment pool (fetchProjectDetailsConcurrently).       *)
(*                                                                         *)
(* A JavaScript string is a sequence of one-character strings.  The value  *)
(* undefined is the one-element sequence Undefined, whose element is not a *)
(* character, so that every value of the model is a sequence.              *)
(***************************************************************************)
EXTENDS Integers, Sequences, FiniteSets, TLC

VARIABLES
    \* CSV codec
    mode,       \* "table": a table is written and read back; "text": a text is scanned
    headers,    \* writeCsv's headers
    records,    \* writeCsv's records
    content,    \* the file's text
    i,          \* parseCsv: index of the character being scanned (0-based)
    rows,       \* parseCsv: rows
    row,        \* parseCsv: row
    cell,       \* parseCsv: cell
    inQuotes,   \* parseCsv: inQuotes
    decoded,    \* readCsv's result
    pcCsv,      \* position of the codec run
    \* archive cross-check (main of the compare script)
    githubRecords,  \* the records readCsv returns for the GitHub report
    gitlabRecords,  \* the records readCsv returns for the GitLab report
    github,         \* loadGithubReport: repos
    githubDuplicates, \* loadGithubReport: duplicates
    gitlab,         \* loadGitlabReport: projects
    gitlabDuplicates, \* loadGitlabReport: duplicates
    compareRows,    \* compare: rows
    counters,       \* compare: counters
    thrown,         \* the function whose exception ended main, or "none"
    pcJoin,         \* position of main
    \* detail enrichment (fetchProjectDetailsConcurrently)
    env,            \* process.env.GITLAB_DETAIL_CONCURRENCY
    projects,       \* the list of projects (0-based index k is projects[k + 1])
    responses,      \* what fetchProjectDetail does for each project
    workerCount,    \* workerCount
    started,        \* the number of worker() calls made by the for loop
    index,          \* the shared cursor
    fetched,        \* the shared completion counter
    wpc,            \* each worker: "await" (its fetch is in flight) or "returned"
    currentIndex,   \* each worker's currentIndex
    claimedBy,      \* per project, the workers that claimed its index, in order
    fetchesIssued,  \* per project, the calls of fetchProjectDetail in this run
    writers,        \* per project, the workers that assigned a field of it
    warnings,       \* per project, the warnings written by console.error
    progress,       \* the values of fetched written by console.log
    run,            \* 1: the first call; 2: the call repeated on the same list
    firstRun,       \* the list as the first call left it
    pcPool,         \* position of the call
    \* staleness comparison (main of check_last_change.js)
    results,        \* compareLastChanges: results
    changeCounters, \* compareLastChanges: counters
    pcStale,        \* position of main
    \* project listing (fetchProjects)
    page,           \* fetchProjects: page
    projectRecords, \* fetchProjects: records
    requested,      \* the page numbers requested so far, in order
    replies,        \* the responses received so far, in order
    pcPages         \* position of fetchProjects

codecVars == <<mode, headers, records, content, i, rows, row, cell, inQuotes,
               decoded, pcCsv>>

joinVars == <<githubRecords, gitlabRecords, github, githubDuplicates, gitlab,
              gitlabDuplicates, compareRows, counters, thrown, pcJoin>>

poolVars == <<env, projects, responses, workerCount, started, index, fetched, wpc,
              currentIndex, claimedBy, fetchesIssued, writers, warnings, progress,
              run, firstRun, pcPool>>

staleVars == <<results, changeCounters, pcStale>>

pagesVars == <<page, projectRecords, requested, replies, pcPages>>

vars == <<codecVars, joinVars, poolVars, staleVars, pagesVars>>

----------------------------------------------------------------------------
(* Bounds of the model *)

MaxRecords == 2
MaxTextLen == 4
MaxGithub == 3
MaxGitlab == 2
MaxItems == 3

----------------------------------------------------------------------------
(* JavaScript values *)

QUOTE == "\""
COMMA == ","
LF == "\n"
CR == "\r"

Undefined == <<"<undefined>">>

\* the values null and true, one-element sequences as undefined is
JsNull == <<"<null>">>
JsTrue == <<"<true>">>

\* the name of the accessor every object literal inherits for its prototype
PROTO == <<"_", "_", "p", "r", "o", "t", "o", "_", "_">>

\* typeof value === "string"
IsString(v) == v \notin {Undefined, JsNull, JsTrue}

Range(s) == {s[k] : k \in 1..Len(s)}

\* the sequences of at most n elements of S
SeqsUpTo(S, n) == UNION {[1..k -> S] : k \in 0..n}

\* JavaScript truthiness of a string-or-undefined value
Truthy(v) == v # Undefined /\ v # JsNull /\ v # <<>>

\* a || b
Or(a, b) == IF Truthy(a) THEN a ELSE b

\* content[k] of the source (0-based); undefined past the end
CharAt(s, k) == IF k >= 0 /\ k < Len(s) THEN s[k + 1] ELSE "<undefined>"

RECURSIVE JoinWith(_, _)
\* Array.prototype.join
JoinWith(parts, sep) ==
    IF parts = <<>> THEN <<>>
    ELSE IF Len(parts) = 1 THEN parts[1]
    ELSE parts[1] \o sep \o JoinWith(Tail(parts), sep)

\* obj[key] for a record read back from a file: own properties only
Get(obj, key) == IF key \in DOMAIN obj THEN obj[key] ELSE Undefined

----------------------------------------------------------------------------
(* stringifyCsvValue, writeCsv *)

\* String(value)
String(v) ==
    IF v = Undefined THEN <<"u", "n", "d", "e", "f", "i", "n", "e", "d">>
    ELSE IF v = JsNull THEN <<"n", "u", "l", "l">>
    ELSE IF v = JsTrue THEN <<"t", "r", "u", "e">>
    ELSE v

RECURSIVE DoubleQuotes(_)
\* stringValue.replace(/"/g, '""')
DoubleQuotes(s) ==
    IF s = <<>> THEN <<>>
    ELSE (IF Head(s) = QUOTE THEN <<QUOTE, QUOTE>> ELSE <<Head(s)>>)
         \o DoubleQuotes(Tail(s))

\* NeedsQuoting without the CR of the character class
NeedsQuoting_NoCR(s) == \E k \in 1..Len(s) : s[k] \in {QUOTE, COMMA, LF}

\* /[",\n\r]/.test(stringValue)
NeedsQuoting(s) == \E k \in 1..Len(s) : s[k] \in {QUOTE, COMMA, LF, CR}

stringifyCsvValue(value) ==
    LET stringValue == IF IsString(value) THEN value ELSE String(value)
    IN  IF value = Undefined \/ value = JsNull THEN <<>>
        ELSE IF NeedsQuoting(stringValue)
        THEN <<QUOTE>> \o DoubleQuotes(stringValue) \o <<QUOTE>>
        ELSE stringValue

\* the text writeCsv writes to the file
writeCsvText(hs, rs) ==
    LET line(record) ==
            JoinWith([k \in 1..Len(hs) |-> stringifyCsvValue(Get(record, hs[k]))],
                     <<COMMA>>)
        lines == <<JoinWith(hs, <<COMMA>>)>> \o [k \in 1..Len(rs) |-> line(rs[k])]
    IN  JoinWith(lines, <<LF>>) \o <<LF>>

----------------------------------------------------------------------------
(* parseCsv, readCsv *)

\* the scanner's state before the first character
ScanInit == [i |-> 0, rows |-> <<>>, row |-> <<>>, cell |-> <<>>, inQuotes |-> FALSE]

\* ScanStep with the separator tested before the quoted mode: a comma ends
\* the cell inside quotes too
ScanStep_CommaFirst(text, st) ==
    LET char == CharAt(text, st.i)
        next == CharAt(text, st.i + 1)
    IN  IF char = COMMA
        THEN [st EXCEPT !.row = Append(@, st.cell), !.cell = <<>>, !.i = @ + 1]
        ELSE IF st.inQuotes
        THEN IF char = QUOTE
             THEN IF next = QUOTE
                  THEN [st EXCEPT !.cell = @ \o <<QUOTE>>, !.i = @ + 2]
                  ELSE [st EXCEPT !.inQuotes = FALSE, !.i = @ + 1]
             ELSE [st EXCEPT !.cell = @ \o <<char>>, !.i = @ + 1]
        ELSE IF char = QUOTE
        THEN [st EXCEPT !.inQuotes = TRUE, !.i = @ + 1]
        ELSE IF char = CR \/ char = LF
        THEN [st EXCEPT !.rows = Append(@, Append(st.row, st.cell)),
                        !.row = <<>>,
                        !.cell = <<>>,
                        !.i = IF char = CR /\ next = LF THEN @ + 2 ELSE @ + 1]
        ELSE [st EXCEPT !.cell = @ \o <<char>>, !.i = @ + 1]

\* one iteration of parseCsv's for loop, its i += 1 included
ScanStep(text, st) ==
    LET char == CharAt(text, st.i)
        next == CharAt(text, st.i + 1)
    IN  IF st.inQuotes
        THEN IF char = QUOTE
             THEN IF next = QUOTE
                  THEN [st EXCEPT !.cell = @ \o <<QUOTE>>, !.i = @ + 2]
                  ELSE [st EXCEPT !.inQuotes = FALSE, !.i = @ + 1]
             ELSE [st EXCEPT !.cell = @ \o <<char>>, !.i = @ + 1]
        ELSE IF char = QUOTE
        THEN [st EXCEPT !.inQuotes = TRUE, !.i = @ + 1]
        ELSE IF char = COMMA
        THEN [st EXCEPT !.row = Append(@, st.cell), !.cell = <<>>, !.i = @ + 1]
        ELSE IF char = CR \/ char = LF
        THEN [st EXCEPT !.rows = Append(@, Append(st.row, st.cell)),
                        !.row = <<>>,
                        !.cell = <<>>,
                        !.i = IF char = CR /\ next = LF THEN @ + 2 ELSE @ + 1]
        ELSE [st EXCEPT !.cell = @ \o <<char>>, !.i = @ + 1]

\* ScanResult with the pending cell and row flushed only outside quoted mode:
\* the cell of an unterminated quote is discarded
ScanResult_DropUnterminated(st) ==
    LET flushed == IF ~st.inQuotes /\ (Len(st.cell) > 0 \/ Len(st.row) > 0)
                   THEN Append(st.rows, Append(st.row, st.cell))
                   ELSE st.rows
    IN  IF Len(flushed) > 0
           /\ Len(flushed[Len(flushed)]) = 1
           /\ flushed[Len(flushed)][1] = <<>>
        THEN SubSeq(flushed, 1, Len(flushed) - 1)
        ELSE flushed

\* what parseCsv returns once the loop has ended: the pending cell and row
\* are flushed, then one trailing row holding a single empty cell is dropped
ScanResult(st) ==
    LET flushed == IF Len(st.cell) > 0 \/ Len(st.row) > 0
                   THEN Append(st.rows, Append(st.row, st.cell))
                   ELSE st.rows
    IN  IF Len(flushed) > 0
           /\ Len(flushed[Len(flushed)]) = 1
           /\ flushed[Len(flushed)][1] = <<>>
        THEN SubSeq(flushed, 1, Len(flushed) - 1)
        ELSE flushed

RECURSIVE ScanFrom(_, _)
ScanFrom(text, st) ==
    IF st.i < Len(text) THEN ScanFrom(text, ScanStep(text, st)) ELSE st

parseCsv(text) == ScanResult(ScanFrom(text, ScanInit))

\* cells[index] ?? ""
CellOr(cells, idx) == IF idx < Len(cells) THEN cells[idx + 1] ELSE <<>>

\* readCsv's zip of the rows against the header row; forEach assigns in
\* index order, so the last column of a repeated header name wins.  The
\* assignment record["__proto__"] = cell goes to the inherited setter, which
\* ignores a string: the record gets no field of that name.
ZipRows(rs) ==
    IF Len(rs) = 0 THEN <<>>
    ELSE LET hs == rs[1]
             last(h) == CHOOSE k \in 1..Len(hs) :
                            /\ hs[k] = h
                            /\ \A m \in (k + 1)..Len(hs) : hs[m] # h
         IN  [k \in 1..(Len(rs) - 1) |->
                 [h \in Range(hs) \ {PROTO} |-> CellOr(rs[k + 1], last(h) - 1)]]

readCsv(text) == ZipRows(parseCsv(text))

----------------------------------------------------------------------------
(* Strings: trim, toLowerCase, String, sort order *)

WhiteSpace == {" ", "\t", LF, CR}

RECURSIVE TrimStart(_)
TrimStart(s) ==
    IF s # <<>> /\ Head(s) \in WhiteSpace THEN TrimStart(Tail(s)) ELSE s

RECURSIVE TrimEnd(_)
TrimEnd(s) ==
    IF s # <<>> /\ s[Len(s)] \in WhiteSpace
    THEN TrimEnd(SubSeq(s, 1, Len(s) - 1))
    ELSE s

\* String.prototype.trim
Trim(s) == TrimEnd(TrimStart(s))

UpperCase == <<"A", "B", "E", "F", "O", "R", "T", "U">>
LowerCase == <<"a", "b", "e", "f", "o", "r", "t", "u">>

LowerChar(c) ==
    IF \E k \in 1..Len(UpperCase) : UpperCase[k] = c
    THEN LowerCase[CHOOSE k \in 1..Len(UpperCase) : UpperCase[k] = c]
    ELSE c

\* String.prototype.toLowerCase
ToLowerCase(s) == [k \in 1..Len(s) |-> LowerChar(s[k])]

\* the characters of the model in increasing order of their UTF-16 code unit
CodeOrder == <<"\t", LF, CR, " ", QUOTE, COMMA, "1",
               "A", "B", "E", "F", "O", "R", "T", "U",
               "a", "b", "c", "d", "e", "f", "i", "l", "n", "o", "r", "s", "t", "u">>

CharCode(c) == CHOOSE k \in 1..Len(CodeOrder) : CodeOrder[k] = c

RECURSIVE StrLess(_, _)
\* a < b for two strings: by code unit, a proper prefix first
StrLess(a, b) ==
    IF b = <<>> THEN FALSE
    ELSE IF a = <<>> THEN TRUE
    ELSE IF Head(a) = Head(b) THEN StrLess(Tail(a), Tail(b))
    ELSE CharCode(Head(a)) < CharCode(Head(b))

RECURSIVE SortKeys_Descending(_)
\* SortKeys with the comparison reversed
SortKeys_Descending(S) ==
    IF S = {} THEN <<>>
    ELSE LET m == CHOOSE x \in S : \A y \in S : x = y \/ StrLess(y, x)
         IN  <<m>> \o SortKeys_Descending(S \ {m})

RECURSIVE SortKeys(_)
\* Object.keys(obj).sort(), given the set of obj's own keys
SortKeys(S) ==
    IF S = {} THEN <<>>
    ELSE LET m == CHOOSE x \in S : \A y \in S : x = y \/ StrLess(x, y)
         IN  <<m>> \o SortKeys(S \ {m})

----------------------------------------------------------------------------
(* Objects used as dictionaries: repos, duplicates, projects *)

\* an object literal {} without own properties
EmptyObject == [k \in {} |-> <<>>]

CONSTRUCTOR == <<"c", "o", "n", "s", "t", "r", "u", "c", "t", "o", "r">>

\* the lower-case names every object literal inherits from Object.prototype:
\* obj[key] is a function or an object, hence truthy, for these keys even
\* when obj has no such own property
InheritedKeys == {CONSTRUCTOR, PROTO}

\* whether obj[key] is truthy, for an object whose own properties hold records
HasTruthy(obj, key) == key \in DOMAIN obj \/ key \in InheritedKeys

\* obj[key] = value
Put(obj, key, value) ==
    [k \in DOMAIN obj \cup {key} |-> IF k = key THEN value ELSE obj[k]]

----------------------------------------------------------------------------
(* loadGithubReport, loadGitlabReport *)

\* the state of a loader before its loop
LoadInit == [repos |-> EmptyObject, duplicates |-> EmptyObject, threw |-> FALSE]

\* LoadRecord with the first record of a key listed among its duplicates too
LoadRecord_FirstListed(acc, record) ==
    LET name == Trim(Or(Get(record, "name"), <<>>))
        key == ToLowerCase(name)
    IN  IF acc.threw \/ ~Truthy(name) THEN acc
        ELSE IF HasTruthy(acc.repos, key)
        THEN LET dups == IF ~HasTruthy(acc.duplicates, key)
                         THEN Put(acc.duplicates, key, <<>>)
                         ELSE acc.duplicates
             IN  IF key \in DOMAIN dups
                 THEN [acc EXCEPT !.duplicates = Put(dups, key, Append(dups[key], record))]
                 ELSE [acc EXCEPT !.threw = TRUE]
        ELSE [acc EXCEPT !.repos = Put(acc.repos, key, record),
                         !.duplicates = Put(acc.duplicates, key, <<record>>)]

\* one iteration of the loader's for loop.  duplicates[key].push(record)
\* throws a TypeError when duplicates[key] is an inherited member and not a
\* list the loader stored.
LoadRecord(acc, record) ==
    LET name == Trim(Or(Get(record, "name"), <<>>))
        key == ToLowerCase(name)
    IN  IF acc.threw \/ ~Truthy(name) THEN acc
        ELSE IF HasTruthy(acc.repos, key)
        THEN LET dups == IF ~HasTruthy(acc.duplicates, key)
                         THEN Put(acc.duplicates, key, <<>>)
                         ELSE acc.duplicates
             IN  IF key \in DOMAIN dups
                 THEN [acc EXCEPT !.duplicates = Put(dups, key, Append(dups[key], record))]
                 ELSE [acc EXCEPT !.threw = TRUE]
        ELSE [acc EXCEPT !.repos = Put(acc.repos, key, record)]

RECURSIVE LoadFrom(_, _)
LoadFrom(acc, rs) ==
    IF rs = <<>> THEN acc ELSE LoadFrom(LoadRecord(acc, Head(rs)), Tail(rs))

loadGithubReport(rs) == LoadFrom(LoadInit, rs)

loadGitlabReport(rs) == LoadFrom(LoadInit, rs)

----------------------------------------------------------------------------
(* compare *)

CountersInit == [missing |-> 0, archived |-> 0, not_archived |-> 0, total_github |-> 0]

NOT_ARCHIVED == <<"g", "i", "t", "l", "a", "b", "_", "n", "o", "t", "_",
                  "a", "r", "c", "h", "i", "v", "e", "d">>

\* the value undefined where a record is expected
NoRecord == [undefined |-> TRUE]

\* gitlab[key]: the own property, else the inherited member (an object
\* without any of the fields of a project), else undefined
Project(gl, key) ==
    IF key \in DOMAIN gl THEN gl[key]
    ELSE IF key \in InheritedKeys THEN [inherited |-> TRUE]
    ELSE NoRecord

\* archivedValue without the toLowerCase
archivedValue_CaseSensitive(glProject) == String(Get(glProject, "archived"))

\* the lower-cased string compare tests against "true" and "1"
archivedValue(glProject) == ToLowerCase(String(Get(glProject, "archived")))

\* the row compare pushes for a pair that is not archived
OutputRow(ghRepo, glProject) ==
    [github_name |-> Get(ghRepo, "name"),
     github_name_with_owner |->
         Or(Or(Get(ghRepo, "name_with_owner"), Get(ghRepo, "nameWithOwner")), <<>>),
     github_archived |->
         Or(Or(Get(ghRepo, "archived"), Get(ghRepo, "isArchived")), <<>>),
     github_visibility |-> Or(Get(ghRepo, "visibility"), <<>>),
     gitlab_path_with_namespace |-> Or(Get(glProject, "path_with_namespace"), <<>>),
     gitlab_archived |-> Get(glProject, "archived"),
     status |-> NOT_ARCHIVED]

\* CompareKey with a row pushed for a left key absent on the right as well
CompareKey_MissingRow(gh, gl, acc, key) ==
    LET ghRepo == gh[key]
        glProject == Project(gl, key)
    IN  IF glProject = NoRecord
        THEN [acc EXCEPT !.counters.missing = @ + 1,
                         !.rows = Append(@, OutputRow(ghRepo, glProject))]
        ELSE IF archivedValue(glProject) = <<"t", "r", "u", "e">>
                \/ archivedValue(glProject) = <<"1">>
        THEN [acc EXCEPT !.counters.archived = @ + 1]
        ELSE [acc EXCEPT
                !.counters.not_archived = @ + 1,
                !.rows = Append(@, OutputRow(ghRepo, glProject))]

\* CompareKey without the continue of the archived branch: an archived pair
\* is counted not_archived too, and gets a row
CompareKey_NoContinue(gh, gl, acc, key) ==
    LET ghRepo == gh[key]
        glProject == Project(gl, key)
        isArchived == archivedValue(glProject) = <<"t", "r", "u", "e">>
                      \/ archivedValue(glProject) = <<"1">>
    IN  IF glProject = NoRecord
        THEN [acc EXCEPT !.counters.missing = @ + 1]
        ELSE [acc EXCEPT
                !.counters.archived = IF isArchived THEN @ + 1 ELSE @,
                !.counters.not_archived = @ + 1,
                !.rows = Append(@, OutputRow(ghRepo, glProject))]

\* one iteration of compare's loop over the sorted keys
CompareKey(gh, gl, acc, key) ==
    LET ghRepo == gh[key]
        glProject == Project(gl, key)
    IN  IF glProject = NoRecord
        THEN [acc EXCEPT !.counters.missing = @ + 1]
        ELSE IF archivedValue(glProject) = <<"t", "r", "u", "e">>
                \/ archivedValue(glProject) = <<"1">>
        THEN [acc EXCEPT !.counters.archived = @ + 1]
        ELSE [acc EXCEPT
                !.counters.not_archived = @ + 1,
                !.rows = Append(@, OutputRow(ghRepo, glProject))]

RECURSIVE CompareFrom(_, _, _, _)
CompareFrom(gh, gl, acc, keys) ==
    IF keys = <<>> THEN acc
    ELSE CompareFrom(gh, gl, CompareKey(gh, gl, acc, Head(keys)), Tail(keys))

compare(gh, gl) ==
    LET keys == SortKeys(DOMAIN gh)
        acc == CompareFrom(gh, gl, [rows |-> <<>>, counters |-> CountersInit], keys)
    IN  [acc EXCEPT !.counters.total_github = Len(keys)]

----------------------------------------------------------------------------
(* Inputs of the cross-check *)

FOO == <<"f", "o", "o">>
BAR == <<"b", "a", "r">>

GithubNames ==
    {<<"F", "o", "o">>, <<" ", "f", "o", "o", " ">>, BAR, <<"b">>, <<" ">>,
     CONSTRUCTOR}

GithubPool == {[name |-> n] : n \in GithubNames}

GitlabPool ==
    {[name |-> FOO, archived |-> <<"t", "r", "u", "e">>],
     [name |-> FOO, archived |-> <<"f", "a", "l", "s", "e">>],
     [name |-> <<"F", "O", "O">>, archived |-> <<"T", "R", "U", "E">>],
     [name |-> <<"B", "A", "R">>, archived |-> <<"f", "a", "l", "s", "e">>],
     [name |-> BAR, archived |-> <<"1">>],
     [name |-> <<"b">>, path_with_namespace |-> <<"b">>],
     [name |-> CONSTRUCTOR, archived |-> <<"t", "r", "u", "e">>]}

----------------------------------------------------------------------------
(* fetchProjectDetailsConcurrently: the pure parts *)

DefaultConcurrency == 8
ConcurrencyCap == 16
ProgressEvery == 25

Min(a, b) == IF a < b THEN a ELSE b

Digits == <<"0", "1", "2", "3", "4", "5", "6", "7", "8", "9">>

IsDigit(c) == \E k \in 1..Len(Digits) : Digits[k] = c

DigitValue(c) == (CHOOSE k \in 1..Len(Digits) : Digits[k] = c) - 1

RECURSIVE DigitsValue(_, _)
\* the value of the longest prefix of decimal digits of s, after acc
DigitsValue(acc, s) ==
    IF s = <<>> \/ ~IsDigit(Head(s)) THEN acc
    ELSE DigitsValue(acc * 10 + DigitValue(Head(s)), Tail(s))

\* parseInt(s, 10): leading white space, an optional sign, then the longest
\* prefix of digits; NaN when there is no digit
ParseInt(s) ==
    LET t == TrimStart(s)
        signed == t # <<>> /\ Head(t) \in {"-", "+"}
        body == IF signed THEN Tail(t) ELSE t
        value == DigitsValue(0, body)
    IN  IF body = <<>> \/ ~IsDigit(Head(body))
        THEN [nan |-> TRUE, n |-> 0]
        ELSE [nan |-> FALSE, n |-> IF signed /\ Head(t) = "-" THEN 0 - value ELSE value]

\* concurrencyRaw
ConcurrencyRaw(e) == Or(e, <<"8">>)

\* Concurrency without the cap
Concurrency_NoCap(parsed) ==
    IF parsed.nan \/ parsed.n < 1 THEN DefaultConcurrency ELSE parsed.n

\* concurrency, from parsed
Concurrency(parsed) ==
    IF parsed.nan \/ parsed.n < 1
    THEN DefaultConcurrency
    ELSE Min(parsed.n, ConcurrencyCap)

\* Math.min(concurrency, projects.length)
WorkerCount(e, n) == Min(Concurrency(ParseInt(ConcurrencyRaw(e))), n)

\* NeedsDetail without the test of the field: every project is fetched
NeedsDetail_Always(project) == TRUE

\* the worker fetches the detail of a project unless the field is truthy
NeedsDetail(project) == ~Truthy(project.last_repository_updated_at)

\* the value of currentIndex at which a worker that enters its loop with the
\* cursor at idx leaves the synchronous part of the loop: the first index
\* from idx on that is past the end (the worker returns) or whose project
\* needs its detail (the worker awaits the fetch)
StopIndex(idx, projs) ==
    IF idx >= Len(projs) THEN idx
    ELSE CHOOSE k \in idx..Len(projs) :
            /\ k = Len(projs) \/ NeedsDetail(projs[k + 1])
            /\ \A m \in idx..(k - 1) : ~NeedsDetail(projs[m + 1])

\* AfterClaim with the increment left for after the await: the cursor still
\* stands on the claimed index while the fetch is in flight
AfterClaim_Deferred(k) == k

\* index += 1, after the claim of currentIndex
AfterClaim(k) == k + 1

THROWS == [throws |-> TRUE]

\* what fetchProjectDetail does when its request never completes: the promise
\* the worker awaits is never settled
HANGS == [hangs |-> TRUE]

\* Settles with every worker held back while any request in flight is
\* pending for ever, as when the workers await their requests together
Settles_Together(response, inFlight) ==
    response # HANGS /\ \A r \in inFlight : r # HANGS

\* the await of a worker ends when its own request settles, whatever the
\* requests of the other workers in flight do
Settles(response, inFlight) == response # HANGS

\* SettleFetch with last_activity_at assigned whether or not the project has one
SettleFetch_AlwaysActivity(project, response) ==
    IF response = THROWS THEN project
    ELSE [project EXCEPT
            !.last_repository_updated_at = response.last_repository_updated_at,
            !.last_activity_at = response.last_activity_at]

\* the project after its fetch has settled: the try block's two assignments
\* when the promise resolved, nothing when it rejected
SettleFetch(project, response) ==
    IF response = THROWS THEN project
    ELSE [project EXCEPT
            !.last_repository_updated_at = response.last_repository_updated_at,
            !.last_activity_at =
                IF ~Truthy(project.last_activity_at)
                THEN response.last_activity_at
                ELSE @]

\* WarningFor with the console.error placed after the try statement
WarningFor_Always(response) == TRUE

\* the catch block writes one warning
WarningFor(response) == response = THROWS

\* the progress line is written for this value of fetched
ProgressDue(f, n) == f % ProgressEvery = 0 \/ f = n

----------------------------------------------------------------------------
(* check_last_change.js: toDate, compareLastChanges *)

\* record.pushed_at || record.pushedAt || ""
getGithubTimestamp(record) ==
    Or(Or(Get(record, "pushed_at"), Get(record, "pushedAt")), <<>>)

\* project.last_repository_updated_at || project.last_activity_at || ""
pickGitlabTimestamp(project) ==
    Or(Or(Get(project, "last_repository_updated_at"),
          Get(project, "last_activity_at")), <<>>)

\* new Date(value).getTime() for the timestamps of the model: a string of
\* four digits is the date-only form YYYY, whose time grows with the year
\* (the year stands for the time); the other timestamps of the model are
\* strings Date cannot parse, whose time is NaN
DateTime(value) ==
    IF Len(value) = 4 /\ \A k \in 1..4 : IsDigit(value[k])
    THEN [nan |-> FALSE, n |-> DigitsValue(0, value)]
    ELSE [nan |-> TRUE, n |-> 0]

\* the value null where a Date is expected
Null == [null |-> TRUE]

toDate(value) ==
    IF ~Truthy(value) THEN Null
    ELSE IF DateTime(value).nan THEN Null
    ELSE [time |-> DateTime(value).n]

\* one iteration of the loop that builds gitlabByName
IndexRecord(gitlabByName, record) ==
    LET name == ToLowerCase(Trim(Or(Get(record, "name"), <<>>)))
    IN  IF ~Truthy(name) THEN gitlabByName
        ELSE IF ~HasTruthy(gitlabByName, name) THEN Put(gitlabByName, name, record)
        ELSE gitlabByName

RECURSIVE IndexFrom(_, _)
IndexFrom(gitlabByName, rs) ==
    IF rs = <<>> THEN gitlabByName
    ELSE IndexFrom(IndexRecord(gitlabByName, Head(rs)), Tail(rs))

ChangeCountersInit ==
    [compared |-> 0, missingInGitLab |-> 0, gitlabNewer |-> 0,
     githubNewerOrEqual |-> 0, unknown |-> 0]

\* the entry compareLastChanges pushes; the status tags are kept as they are
\* written in the source
ResultEntry(name, githubTimestamp, gitlabTimestamp, status) ==
    [name |-> name,
     githubPushedAt |-> Or(githubTimestamp, <<>>),
     gitlabUpdatedAt |-> Or(gitlabTimestamp, <<>>),
     status |-> status]

\* one iteration of the loop over githubRecords
CompareRepo(gitlabByName, acc, repo) ==
    LET name == Trim(Or(Get(repo, "name"), <<>>))
        project == Project(gitlabByName, ToLowerCase(name))
        githubTimestamp == getGithubTimestamp(repo)
        githubDate == toDate(githubTimestamp)
        gitlabTimestamp == pickGitlabTimestamp(project)
        gitlabDate == toDate(gitlabTimestamp)
        counted == [acc EXCEPT !.counters.compared = @ + 1]
        entry(status) == ResultEntry(name, githubTimestamp, gitlabTimestamp, status)
    IN  IF ~Truthy(name) THEN acc
        ELSE IF project = NoRecord
        THEN [acc EXCEPT !.counters.missingInGitLab = @ + 1]
        ELSE IF githubDate = Null /\ gitlabDate = Null
        THEN [counted EXCEPT !.counters.unknown = @ + 1,
                             !.results = Append(@, entry("unknown_timestamps"))]
        ELSE IF githubDate = Null
        THEN [counted EXCEPT !.counters.gitlabNewer = @ + 1,
                             !.results = Append(@, entry("gitlab_has_timestamp_only"))]
        ELSE IF gitlabDate = Null
        THEN [counted EXCEPT !.counters.githubNewerOrEqual = @ + 1,
                             !.results = Append(@, entry("github_has_timestamp_only"))]
        ELSE IF gitlabDate.time > githubDate.time
        THEN [counted EXCEPT !.counters.gitlabNewer = @ + 1,
                             !.results = Append(@, entry("gitlab_newer"))]
        ELSE [counted EXCEPT !.counters.githubNewerOrEqual = @ + 1,
                             !.results = Append(@, entry("github_newer_or_equal"))]

RECURSIVE CompareReposFrom(_, _, _)
CompareReposFrom(gitlabByName, acc, rs) ==
    IF rs = <<>> THEN acc
    ELSE CompareReposFrom(gitlabByName, CompareRepo(gitlabByName, acc, Head(rs)),
                          Tail(rs))

compareLastChanges(ghRecords, glRecords) ==
    CompareReposFrom(IndexFrom(EmptyObject, glRecords),
                     [results |-> <<>>, counters |-> ChangeCountersInit],
                     ghRecords)

----------------------------------------------------------------------------
(* Inputs of the staleness comparison *)

MaxRepos == 2
MaxProjects == 2

Y2020 == <<"2", "0", "2", "0">>
Y2021 == <<"2", "0", "2", "1">>
UNPARSABLE == <<"x">>

RepoPool ==
    {[name |-> <<"F", "o", "o">>, pushed_at |-> Y2020],
     [name |-> <<"F", "o", "o">>, pushed_at |-> UNPARSABLE],
     [name |-> BAR, pushed_at |-> <<>>, pushedAt |-> Y2021],
     [name |-> BAR, pushed_at |-> <<>>],
     [name |-> BAR, pushed_at |-> Y2021],
     [name |-> CONSTRUCTOR, pushed_at |-> Y2020],
     [name |-> <<" ">>, pushed_at |-> Y2020]}

ProjectPool ==
    {[name |-> FOO, last_repository_updated_at |-> Y2021, last_activity_at |-> Y2020],
     [name |-> FOO, last_repository_updated_at |-> Y2020, last_activity_at |-> <<>>],
     [name |-> <<"F", "O", "O", " ">>, last_repository_updated_at |-> <<>>,
      last_activity_at |-> <<>>],
     [name |-> <<"B", "A", "R">>, last_repository_updated_at |-> <<>>,
      last_activity_at |-> Y2021],
     [name |-> BAR, last_repository_updated_at |-> UNPARSABLE,
      last_activity_at |-> Y2021],
     [name |-> BAR, last_repository_updated_at |-> Y2020, last_activity_at |-> <<>>],
     [name |-> CONSTRUCTOR, last_repository_updated_at |-> Y2021,
      last_activity_at |-> <<>>]}

----------------------------------------------------------------------------
(* Inputs of the enrichment *)

T0 == <<"t", "0">>
T1 == <<"t", "1">>
A0 == <<"a", "0">>
A1 == <<"a", "1">>

Detail(updated, activity) ==
    [last_repository_updated_at |-> updated, last_activity_at |-> activity]

\* a project as fetchProjects returned it, and what its detail request does
PlainItem == [project |-> Detail(Undefined, A0), response |-> Detail(T1, A1)]
QuietItem == [project |-> Detail(Undefined, Undefined), response |-> Detail(T1, A1)]
FailingItem == [project |-> Detail(Undefined, A0), response |-> THROWS]
FilledItem == [project |-> Detail(T0, A0), response |-> Detail(T1, A1)]
BareItem == [project |-> Detail(Undefined, A0), response |-> Detail(Undefined, A1)]

ItemPool == {PlainItem, QuietItem, FailingItem, FilledItem, BareItem}

\* a project whose detail request never completes
HangingItem == [project |-> Detail(Undefined, A0), response |-> HANGS]

HungLists == SeqsUpTo({PlainItem, FailingItem, FilledItem, HangingItem}, MaxItems)

HungEnvs == {<<"1">>, <<"2">>, <<"3">>}

\* concurrency 3 over 10 projects, the fetch of the 4th throws
ScenarioCItems == [k \in 1..10 |-> IF k = 4 THEN FailingItem ELSE PlainItem]

\* one project more than the cap on the workers; the first ones are filled
LongItems ==
    [k \in 1..(ConcurrencyCap + 1) |->
        IF k <= DefaultConcurrency + 4 THEN FilledItem ELSE PlainItem]

ItemLists == SeqsUpTo(ItemPool, MaxItems) \cup {ScenarioCItems, LongItems}

EnvPool == {Undefined, <<>>, <<"3">>, <<"1">>, <<"0">>, <<"-", "1">>, <<"2", "0">>,
            <<"x">>, <<" ", "2", "x">>}

----------------------------------------------------------------------------
(* Inputs of the codec *)

H == <<"h">>
K == <<"k">>
AB == <<"a", ",", "b">>
HQ == <<"h", QUOTE>>

HeaderLists == {<<H>>, <<H, K>>, <<AB>>, <<HQ>>}

CellValues == {<<>>, <<"a">>, <<COMMA>>, <<QUOTE>>, <<LF>>, <<CR>>, Undefined,
               JsNull, JsTrue}

TextChars == {"a", COMMA, QUOTE, LF, CR}

\* the quoted cell "a,b<LF>""c"""
ScenarioB == <<QUOTE, "a", COMMA, "b", LF, QUOTE, QUOTE, "c", QUOTE, QUOTE, QUOTE>>

Tables(hs) == SeqsUpTo([Range(hs) -> CellValues], MaxRecords)

\* a file whose one column is named __proto__
ProtoText == PROTO \o <<LF, "a", LF>>

Texts == SeqsUpTo(TextChars, MaxTextLen) \cup {ScenarioB, ProtoText}

----------------------------------------------------------------------------
(* The parts of the state a run does not use *)

CodecIdle ==
    /\ mode = "idle"
    /\ headers = <<>>
    /\ records = <<>>
    /\ content = <<>>
    /\ i = 0
    /\ rows = <<>>
    /\ row = <<>>
    /\ cell = <<>>
    /\ inQuotes = FALSE
    /\ decoded = <<>>
    /\ pcCsv = "idle"

JoinIdle ==
    /\ githubRecords = <<>>
    /\ gitlabRecords = <<>>
    /\ github = EmptyObject
    /\ githubDuplicates = EmptyObject
    /\ gitlab = EmptyObject
    /\ gitlabDuplicates = EmptyObject
    /\ compareRows = <<>>
    /\ counters = CountersInit
    /\ thrown = "none"
    /\ pcJoin = "idle"

PoolIdle ==
    /\ env = Undefined
    /\ projects = <<>>
    /\ responses = <<>>
    /\ workerCount = 0
    /\ started = 0
    /\ index = 0
    /\ fetched = 0
    /\ wpc = <<>>
    /\ currentIndex = <<>>
    /\ claimedBy = <<>>
    /\ fetchesIssued = <<>>
    /\ writers = <<>>
    /\ warnings = <<>>
    /\ progress = <<>>
    /\ run = 0
    /\ firstRun = <<>>
    /\ pcPool = "idle"

StaleIdle ==
    /\ results = <<>>
    /\ changeCounters = ChangeCountersInit
    /\ pcStale = "idle"

PagesIdle ==
    /\ page = 0
    /\ projectRecords = <<>>
    /\ requested = <<>>
    /\ replies = <<>>
    /\ pcPages = "idle"

----------------------------------------------------------------------------
(* The codec run *)

InitCodec ==
    /\ \/ /\ mode = "table"
          /\ headers \in HeaderLists
          /\ records \in Tables(headers)
          /\ content = <<>>
          /\ pcCsv = "write"
       \/ /\ mode = "text"
          /\ headers = <<>>
          /\ records = <<>>
          /\ content \in Texts
          /\ pcCsv = "scan"
    /\ i = 0
    /\ rows = <<>>
    /\ row = <<>>
    /\ cell = <<>>
    /\ inQuotes = FALSE
    /\ decoded = <<>>
    /\ JoinIdle
    /\ PoolIdle
    /\ StaleIdle
    /\ PagesIdle

\* writeCsv(pathname, headers, records)
WriteCsv ==
    /\ pcCsv = "write"
    /\ content' = writeCsvText(headers, records)
    /\ pcCsv' = "read"
    /\ UNCHANGED <<mode, headers, records, i, rows, row, cell, inQuotes, decoded>>
    /\ UNCHANGED <<joinVars, poolVars, staleVars, pagesVars>>

\* readCsv(pathname) on the file written
ReadCsv ==
    /\ pcCsv = "read"
    /\ decoded' = readCsv(content)
    /\ pcCsv' = "done"
    /\ UNCHANGED <<mode, headers, records, content, i, rows, row, cell, inQuotes>>
    /\ UNCHANGED <<joinVars, poolVars, staleVars, pagesVars>>

\* parseCsv: one iteration of the for loop
ScanChar ==
    /\ pcCsv = "scan"
    /\ i < Len(content)
    /\ LET st == ScanStep(content, [i |-> i, rows |-> rows, row |-> row,
                                    cell |-> cell, inQuotes |-> inQuotes])
       IN  /\ i' = st.i
           /\ rows' = st.rows
           /\ row' = st.row
           /\ cell' = st.cell
           /\ inQuotes' = st.inQuotes
    /\ UNCHANGED <<mode, headers, records, content, decoded, pcCsv>>
    /\ UNCHANGED <<joinVars, poolVars, staleVars, pagesVars>>

\* parseCsv: the loop has ended; flush, drop the trailing row, return
ScanEnd ==
    /\ pcCsv = "scan"
    /\ i >= Len(content)
    /\ rows' = ScanResult([i |-> i, rows |-> rows, row |-> row,
                           cell |-> cell, inQuotes |-> inQuotes])
    /\ pcCsv' = "parsed"
    /\ UNCHANGED <<mode, headers, records, content, i, row, cell, inQuotes, decoded>>
    /\ UNCHANGED <<joinVars, poolVars, staleVars, pagesVars>>

\* readCsv: the rows parseCsv returned are zipped against the header row
ZipHeaders ==
    /\ pcCsv = "parsed"
    /\ decoded' = ZipRows(rows)
    /\ pcCsv' = "done"
    /\ UNCHANGED <<mode, headers, records, content, i, rows, row, cell, inQuotes>>
    /\ UNCHANGED <<joinVars, poolVars, staleVars, pagesVars>>

NextCodec == WriteCsv \/ ReadCsv \/ ScanChar \/ ScanEnd \/ ZipHeaders

SpecCodec == InitCodec /\ [][NextCodec]_vars

----------------------------------------------------------------------------
(* main of the cross-check: load both reports, compare *)

InitJoin ==
    /\ githubRecords \in SeqsUpTo(GithubPool, MaxGithub)
    /\ gitlabRecords \in SeqsUpTo(GitlabPool, MaxGitlab)
    /\ github = EmptyObject
    /\ githubDuplicates = EmptyObject
    /\ gitlab = EmptyObject
    /\ gitlabDuplicates = EmptyObject
    /\ compareRows = <<>>
    /\ counters = CountersInit
    /\ thrown = "none"
    /\ pcJoin = "loadGithub"
    /\ CodecIdle
    /\ PoolIdle
    /\ StaleIdle
    /\ PagesIdle

\* const github = loadGithubReport(githubPath)
LoadGithubReport ==
    /\ pcJoin = "loadGithub"
    /\ LET r == loadGithubReport(githubRecords)
       IN  IF r.threw
           THEN /\ thrown' = "loadGithubReport"
                /\ pcJoin' = "exit"
                /\ UNCHANGED <<github, githubDuplicates>>
           ELSE /\ github' = r.repos
                /\ githubDuplicates' = r.duplicates
                /\ pcJoin' = "loadGitlab"
                /\ UNCHANGED thrown
    /\ UNCHANGED <<githubRecords, gitlabRecords, gitlab, gitlabDuplicates,
                   compareRows, counters>>
    /\ UNCHANGED <<codecVars, poolVars, staleVars, pagesVars>>

\* const gitlab = loadGitlabReport(gitlabPath)
LoadGitlabReport ==
    /\ pcJoin = "loadGitlab"
    /\ LET r == loadGitlabReport(gitlabRecords)
       IN  IF r.threw
           THEN /\ thrown' = "loadGitlabReport"
                /\ pcJoin' = "exit"
                /\ UNCHANGED <<gitlab, gitlabDuplicates>>
           ELSE /\ gitlab' = r.repos
                /\ gitlabDuplicates' = r.duplicates
                /\ pcJoin' = "compare"
                /\ UNCHANGED thrown
    /\ UNCHANGED <<githubRecords, gitlabRecords, github, githubDuplicates,
                   compareRows, counters>>
    /\ UNCHANGED <<codecVars, poolVars, staleVars, pagesVars>>

\* const { rows, counters } = compare(github, gitlab)
Compare ==
    /\ pcJoin = "compare"
    /\ LET r == compare(github, gitlab)
       IN  /\ compareRows' = r.rows
           /\ counters' = r.counters
    /\ pcJoin' = "done"
    /\ UNCHANGED <<githubRecords, gitlabRecords, github, githubDuplicates, gitlab,
                   gitlabDuplicates, thrown>>
    /\ UNCHANGED <<codecVars, poolVars, staleVars, pagesVars>>

NextJoin == LoadGithubReport \/ LoadGitlabReport \/ Compare

SpecJoin == InitJoin /\ [][NextJoin]_vars

----------------------------------------------------------------------------
(* fetchProjectDetailsConcurrently: the call, its workers, its return *)

NoHistory(n) ==
    /\ claimedBy = [k \in 1..n |-> <<>>]
    /\ fetchesIssued = [k \in 1..n |-> 0]
    /\ writers = [k \in 1..n |-> {}]
    /\ warnings = [k \in 1..n |-> 0]
    /\ progress = <<>>

PoolStart(lists, envs) ==
    /\ \E items \in lists :
          /\ projects = [k \in 1..Len(items) |->
                            [id |-> k,
                             last_repository_updated_at |->
                                 items[k].project.last_repository_updated_at,
                             last_activity_at |-> items[k].project.last_activity_at]]
          /\ responses = [k \in 1..Len(items) |-> items[k].response]
    /\ env \in envs
    /\ workerCount = 0
    /\ started = 0
    /\ index = 0
    /\ fetched = 0
    /\ wpc = <<>>
    /\ currentIndex = <<>>
    /\ NoHistory(Len(projects))
    /\ run = 1
    /\ firstRun = <<>>
    /\ pcPool = "call"
    /\ CodecIdle
    /\ JoinIdle
    /\ StaleIdle
    /\ PagesIdle

InitPool == PoolStart(ItemLists, EnvPool)

\* the function is entered: the concurrency is read, the cursor and the
\* counter are reset, the number of workers is fixed
Call ==
    /\ pcPool = "call"
    /\ workerCount' = WorkerCount(env, Len(projects))
    /\ index' = 0
    /\ fetched' = 0
    /\ started' = 0
    /\ wpc' = [w \in 1..workerCount' |-> "unstarted"]
    /\ currentIndex' = [w \in 1..workerCount' |-> 0]
    /\ pcPool' = IF workerCount' = 0 THEN "await" ELSE "start"
    /\ UNCHANGED <<env, projects, responses, claimedBy, fetchesIssued, writers,
                   warnings, progress, run, firstRun>>
    /\ UNCHANGED <<codecVars, joinVars, staleVars, pagesVars>>

\* worker w runs the synchronous part of its loop, over the list projs: it
\* claims the indices from the cursor up to the one it stops at, and either
\* issues the fetch of that project and awaits it, or returns past the end
WorkerLoop(w, projs) ==
    LET n == Len(projs)
        k == StopIndex(index, projs)
    IN  /\ index' = AfterClaim(k)
        /\ claimedBy' = [j \in 1..n |->
                            IF j - 1 >= index /\ j - 1 <= k
                            THEN Append(claimedBy[j], w)
                            ELSE claimedBy[j]]
        /\ IF k < n
           THEN /\ wpc' = [wpc EXCEPT ![w] = "await"]
                /\ currentIndex' = [currentIndex EXCEPT ![w] = k]
                /\ fetchesIssued' = [fetchesIssued EXCEPT ![k + 1] = @ + 1]
           ELSE /\ wpc' = [wpc EXCEPT ![w] = "returned"]
                /\ UNCHANGED <<currentIndex, fetchesIssued>>

\* workers.push(worker()): the next worker is started and runs up to its
\* first await; after the last one the function awaits Promise.all
StartWorker ==
    /\ pcPool = "start"
    /\ started < workerCount
    /\ started' = started + 1
    /\ WorkerLoop(started + 1, projects)
    /\ pcPool' = IF started + 1 = workerCount THEN "await" ELSE "start"
    /\ UNCHANGED <<env, projects, responses, workerCount, fetched, writers,
                   warnings, progress, run, firstRun>>
    /\ UNCHANGED <<codecVars, joinVars, staleVars, pagesVars>>

\* the workers whose fetch is in flight
InFlight == {w \in DOMAIN wpc : wpc[w] = "await"}

\* the fetch worker w awaits settles: the try block or the catch block runs,
\* the completion is counted and reported, and the worker goes round its loop
Settle(w) ==
    /\ pcPool = "await"
    /\ w \in DOMAIN wpc
    /\ wpc[w] = "await"
    /\ Settles(responses[currentIndex[w] + 1],
               {responses[currentIndex[v] + 1] : v \in InFlight})
    /\ LET c == currentIndex[w] + 1
           response == responses[c]
       IN  /\ projects' = [projects EXCEPT ![c] = SettleFetch(@, response)]
           /\ writers' = IF response = THROWS THEN writers
                         ELSE [writers EXCEPT ![c] = @ \cup {w}]
           /\ warnings' = IF WarningFor(response)
                          THEN [warnings EXCEPT ![c] = @ + 1]
                          ELSE warnings
    /\ fetched' = fetched + 1
    /\ progress' = IF ProgressDue(fetched + 1, Len(projects))
                   THEN Append(progress, fetched + 1)
                   ELSE progress
    /\ WorkerLoop(w, projects')
    /\ UNCHANGED <<env, responses, workerCount, started, run, firstRun, pcPool>>
    /\ UNCHANGED <<codecVars, joinVars, staleVars, pagesVars>>

\* every worker has returned: Promise.all resolves and the function returns
Return ==
    /\ pcPool = "await"
    /\ \A w \in 1..workerCount : wpc[w] = "returned"
    /\ pcPool' = "returned"
    /\ UNCHANGED <<env, projects, responses, workerCount, started, index, fetched,
                   wpc, currentIndex, claimedBy, fetchesIssued, writers, warnings,
                   progress, run, firstRun>>
    /\ UNCHANGED <<codecVars, joinVars, staleVars, pagesVars>>

\* the caller calls the function again on the list the first call left
CallAgain ==
    /\ pcPool = "returned"
    /\ run = 1
    /\ run' = 2
    /\ firstRun' = projects
    /\ claimedBy' = [k \in 1..Len(projects) |-> <<>>]
    /\ fetchesIssued' = [k \in 1..Len(projects) |-> 0]
    /\ writers' = [k \in 1..Len(projects) |-> {}]
    /\ warnings' = [k \in 1..Len(projects) |-> 0]
    /\ progress' = <<>>
    /\ pcPool' = "call"
    /\ UNCHANGED <<env, projects, responses, workerCount, started, index, fetched,
                   wpc, currentIndex>>
    /\ UNCHANGED <<codecVars, joinVars, staleVars, pagesVars>>

NextPool ==
    \/ Call
    \/ StartWorker
    \/ \E w \in 1..workerCount : Settle(w)
    \/ Return
    \/ CallAgain

SpecPool == InitPool /\ [][NextPool]_vars

\* the call on lists in which a request may never complete.  The event loop
\* runs every continuation that is ready: the function body, each started
\* worker, and the continuation of every await whose request has settled.
InitHung == PoolStart(HungLists, HungEnvs)

SpecHung ==
    /\ InitHung
    /\ [][NextPool]_vars
    /\ WF_vars(Call)
    /\ WF_vars(StartWorker)
    /\ \A w \in 1..MaxItems : WF_vars(Settle(w))
    /\ WF_vars(Return)

----------------------------------------------------------------------------
(* main of check_last_change.js: read both reports, compareLastChanges *)

InitStale ==
    /\ githubRecords \in SeqsUpTo(RepoPool, MaxRepos)
    /\ gitlabRecords \in SeqsUpTo(ProjectPool, MaxProjects)
    /\ github = EmptyObject
    /\ githubDuplicates = EmptyObject
    /\ gitlab = EmptyObject
    /\ gitlabDuplicates = EmptyObject
    /\ compareRows = <<>>
    /\ counters = CountersInit
    /\ thrown = "none"
    /\ pcJoin = "idle"
    /\ results = <<>>
    /\ changeCounters = ChangeCountersInit
    /\ pcStale = "compare"
    /\ CodecIdle
    /\ PoolIdle
    /\ PagesIdle

\* const { results, counters } = compareLastChanges(githubRecords, gitlabRecords)
CompareLastChanges ==
    /\ pcStale = "compare"
    /\ LET r == compareLastChanges(githubRecords, gitlabRecords)
       IN  /\ results' = r.results
           /\ changeCounters' = r.counters
    /\ pcStale' = "done"
    /\ UNCHANGED <<codecVars, joinVars, poolVars, pagesVars>>

NextStale == CompareLastChanges

SpecStale == InitStale /\ [][NextStale]_vars

----------------------------------------------------------------------------
(* fetchProjects of crawl_gitlab.js: the paginated listing of the projects *)

\* the last page the server may have projects on: it answers a request for
\* any later page with an empty array
MaxPage == 2

\* the requests of one call the model follows
MaxRequests == MaxPage + 2

\* the k-th project of page p
PageItem(p, k) == [page |-> p, row |-> k]

\* what JSON.parse(response.body) gives: an exception for a body that is not
\* JSON, a value that is not an array, or an array
NotJson == [json |-> FALSE, array |-> FALSE, data |-> <<>>]
NotArray == [json |-> TRUE, array |-> FALSE, data |-> <<>>]
JsonArray(items) == [json |-> TRUE, array |-> TRUE, data |-> items]

\* the arrays the server may answer a request for page p with
PageBodies(p) ==
    {JsonArray(<<>>)}
        \cup (IF p \in 1..MaxPage
              THEN {JsonArray(<<PageItem(p, 1)>>),
                    JsonArray(<<PageItem(p, 1), PageItem(p, 2)>>)}
              ELSE {})

\* the values of the x-next-page header: absent, empty, a page number, or
\* some other text
NextPageHeaders ==
    {Undefined, <<>>, <<"x">>, <<"0">>, <<"-", "1">>, <<"2", "x">>}
        \cup {<<Digits[n + 1]>> : n \in 1..(MaxPage + 1)}

\* the responses to a request for page p: gitlabGet rejects a status of 400
\* or more and resolves the others with the body and the headers
PageResponses(p) ==
    {[status |-> 404, body |-> NotJson, nextPage |-> Undefined]}
        \cup {[status |-> 200, body |-> b, nextPage |-> Undefined] :
                  b \in {NotJson, NotArray}}
        \cup {[status |-> 200, body |-> b, nextPage |-> h] :
                  b \in PageBodies(p), h \in NextPageHeaders}

\* gitlabGet: whether the promise is rejected
Rejected(response) == response.status >= 400

\* Number.isNaN(page) || page < 1
StopsAt(parsed) == parsed.nan \/ parsed.n < 1

\* one turn of the loop of fetchProjects after the response has arrived: the
\* records, the page and where the function goes next (a page that is NaN is
\* kept as 0: the function returns and never reads it)
AfterResponse(p, recs, response) ==
    LET data == response.body
        nextPage == response.nextPage
        parsed == ParseInt(nextPage)
        pushed == recs \o data.data
    IN  IF Rejected(response) \/ ~data.json
        THEN [records |-> recs, page |-> p, pc |-> "thrown"]
        ELSE IF ~data.array \/ Len(data.data) = 0
        THEN [records |-> recs, page |-> p, pc |-> "returned"]
        ELSE IF ~Truthy(nextPage)
        THEN [records |-> pushed, page |-> p, pc |-> "returned"]
        ELSE IF StopsAt(parsed)
        THEN [records |-> pushed, page |-> parsed.n, pc |-> "returned"]
        ELSE [records |-> pushed, page |-> parsed.n, pc |-> "request"]

\* const records = []; let page = 1
InitPages ==
    /\ page = 1
    /\ projectRecords = <<>>
    /\ requested = <<>>
    /\ replies = <<>>
    /\ pcPages = "request"
    /\ CodecIdle
    /\ JoinIdle
    /\ PoolIdle
    /\ StaleIdle

\* gitlabGet(url) with page set to String(page)
RequestPage ==
    /\ pcPages = "request"
    /\ Len(requested) < MaxRequests
    /\ requested' = Append(requested, page)
    /\ pcPages' = "await"
    /\ UNCHANGED <<page, projectRecords, replies>>
    /\ UNCHANGED <<codecVars, joinVars, poolVars, staleVars>>

\* the response arrives and the loop runs to its next request, to the return
\* or to the exception
ReceivePage ==
    /\ pcPages = "await"
    /\ \E response \in PageResponses(page) :
          LET next == AfterResponse(page, projectRecords, response)
          IN  /\ replies' = Append(replies, response)
              /\ projectRecords' = next.records
              /\ page' = next.page
              /\ pcPages' = next.pc
    /\ UNCHANGED requested
    /\ UNCHANGED <<codecVars, joinVars, poolVars, staleVars>>

NextPages ==
    \/ RequestPage
    \/ ReceivePage

SpecPages == InitPages /\ [][NextPages]_vars

----------------------------------------------------------------------------
(* Claims about the codec *)

\* C1: round trip.  When a table whose values are all strings has been
\* written by writeCsv and read back by readCsv, the records read are as many
\* as the records written, in the same order, and equal field by field.
\* Stated for header names that need no quoting (C16 is about the others).
C1_RoundTrip ==
    (/\ mode = "table"
     /\ pcCsv = "done"
     /\ \A k \in 1..Len(headers) : ~NeedsQuoting(headers[k])
     /\ \A k \in 1..Len(records) : \A h \in Range(headers) : IsString(records[k][h]))
    => /\ Len(decoded) = Len(records)
       /\ \A k \in 1..Len(records) : \A h \in Range(headers) :
              Get(decoded[k], h) = records[k][h]

\* what parseCsv's loop does to one character in quoted mode
QuotedStep ==
    LET char == CharAt(content, i)
        next == CharAt(content, i + 1)
    IN  /\ rows' = rows
        /\ row' = row
        /\ IF char = QUOTE /\ next = QUOTE
           THEN cell' = cell \o <<QUOTE>> /\ inQuotes' = TRUE /\ i' = i + 2
           ELSE IF char = QUOTE
           THEN cell' = cell /\ inQuotes' = FALSE /\ i' = i + 1
           ELSE cell' = cell \o <<char>> /\ inQuotes' = TRUE /\ i' = i + 1

\* the cell a,b<LF>"c"
ScenarioBCell == <<"a", COMMA, "b", LF, QUOTE, "c", QUOTE>>

\* C9 as stated: quoted-mode decoding, and the quoted cell "a,b<LF>""c"""
\* decodes to the single cell a,b<LF>c" (no quote before the c).
C9_ScenarioB_AsStated ==
    (content = ScenarioB /\ pcCsv = "parsed")
    => rows = <<<< <<"a", COMMA, "b", LF, "c", QUOTE>> >>>>

\* C9 amended: inside a quoted cell a doubled double-quote is appended as one
\* quote, a single double-quote leaves quoted mode, and every other character
\* (comma, CR, LF included) is appended to the same cell without ending the
\* cell or the row; the quoted cell "a,b<LF>""c""" decodes to the single
\* cell a,b<LF>"c".
C9_QuotedMode ==
    /\ [][(pcCsv = "scan" /\ inQuotes /\ i < Len(content)) => QuotedStep]_vars
    /\ []((content = ScenarioB /\ pcCsv = "parsed") => rows = <<<<ScenarioBCell>>>>)

C9_Witness ==
    /\ content = ScenarioB
    /\ pcCsv = "parsed"
    /\ rows = <<<<ScenarioBCell>>>>

\* a list of rows: every row a list of cells, every cell a string of the
\* characters of the text
IsRows(rs, text) ==
    \A r \in 1..Len(rs) : \A c \in 1..Len(rs[r]) : \A k \in 1..Len(rs[r][c]) :
        rs[r][c][k] \in Range(text)

\* C14: decode is total.  Every iteration of parseCsv's loop moves i forward
\* and never past the end of the text, so the loop ends; what parseCsv
\* returns is a list of rows of cells; and when the text ends while the
\* scanner is in quoted mode, the rows are those parseCsv returns for the
\* text with a closing double quote appended.
C14_DecodeTotal ==
    /\ [][(pcCsv = "scan" /\ pcCsv' = "scan") => (i' > i /\ i' <= Len(content))]_vars
    /\ [](pcCsv = "parsed" =>
             /\ IsRows(rows, content)
             /\ inQuotes => rows = parseCsv(Append(content, QUOTE)))

\* a text that ends inside a quoted cell, after a comma, has been decoded
C14_Witness ==
    /\ pcCsv = "parsed"
    /\ mode = "text"
    /\ inQuotes
    /\ Len(rows) = 1
    /\ Len(rows[1]) = 2
    /\ Len(rows[1][2]) > 0

\* the line breaks a file can end with
LineBreaks == {<<LF>>, <<CR>>, <<CR, LF>>}

\* the text does not end in a line break
NoFinalBreak(text) == text = <<>> \/ text[Len(text)] \notin {LF, CR}

\* the rows decoded from the text are also the rows decoded from the text
\* followed by any one line break
BreakAdds0Rows ==
    \A lb \in LineBreaks : parseCsv(content \o lb) = rows

\* C15: no phantom record from a final line break.  For every text that does
\* not end in a line break, the text followed by one line break (LF, CR or
\* CRLF) decodes to the rows of the text.  Stated for the texts that do not
\* end inside a quoted cell, where a line break is a character of the cell.
C15_FinalBreak ==
    (pcCsv = "parsed" /\ NoFinalBreak(content) /\ ~inQuotes) => BreakAdds0Rows

\* C16: header support in the codec.  When a table with a header name that
\* contains the separator, a double quote or a line break has been written by
\* writeCsv and read back by readCsv, the records read have the header names
\* written as their field names and the values written as their values.
\* Stated for records whose values are non-empty strings (C1 is about the
\* empty ones).
C16_HeaderRoundTrip ==
    (/\ mode = "table"
     /\ pcCsv = "done"
     /\ \E k \in 1..Len(headers) : NeedsQuoting(headers[k])
     /\ \A k \in 1..Len(records) : \A h \in Range(headers) :
            IsString(records[k][h]) /\ records[k][h] # <<>>)
    => /\ Len(decoded) = Len(records)
       /\ \A k \in 1..Len(records) :
              /\ DOMAIN decoded[k] = Range(headers)
              /\ \A h \in Range(headers) : decoded[k][h] = records[k][h]

RECURSIVE Flatten(_)
\* the parts of a list, one after the other
Flatten(parts) == IF parts = <<>> THEN <<>> ELSE Head(parts) \o Flatten(Tail(parts))

\* the text the quoting policy gives for a value: nothing for undefined and
\* null; for a value with a comma, a double quote, CR or LF, the value between
\* double quotes with each of its double quotes written twice; otherwise the
\* value as it is (true is written as the word true)
PolicyText(value) ==
    LET text == IF value = JsTrue THEN <<"t", "r", "u", "e">> ELSE value
    IN  IF value = Undefined \/ value = JsNull THEN <<>>
        ELSE IF {COMMA, QUOTE, CR, LF} \cap Range(text) # {}
        THEN <<QUOTE>>
             \o Flatten([k \in 1..Len(text) |->
                            IF text[k] = QUOTE THEN <<QUOTE, QUOTE>> ELSE <<text[k]>>])
             \o <<QUOTE>>
        ELSE text

\* the lines of the file after the header line, under the quoting policy
PolicyLines ==
    Flatten([k \in 1..Len(records) |->
                JoinWith([c \in 1..Len(headers) |-> PolicyText(records[k][headers[c]])],
                         <<COMMA>>)
                \o <<LF>>])

\* the file after its header line
AfterHeaderLine ==
    SubSeq(content, Len(JoinWith(headers, <<COMMA>>)) + 2, Len(content))

\* C17: cell-quoting policy.  In the file writeCsv has written, the text of
\* every cell is the value between double quotes with every internal double
\* quote doubled if and only if the value contains a comma, a double quote,
\* CR or LF; otherwise it is the value unchanged; and it is the empty string
\* for undefined and for null.
C17_QuotingPolicy ==
    (mode = "table" /\ pcCsv \in {"read", "done"}) => AfterHeaderLine = PolicyLines

\* a record with a quote to double and a CR to wrap, one with null and undefined
C17_Witness ==
    /\ mode = "table"
    /\ pcCsv = "done"
    /\ headers = <<H, K>>
    /\ Len(records) = 2
    /\ records[1][H] = <<QUOTE>>
    /\ records[1][K] = <<CR>>
    /\ records[2][H] = JsNull
    /\ records[2][K] = Undefined
    /\ AfterHeaderLine = <<QUOTE, QUOTE, QUOTE, QUOTE, COMMA, QUOTE, CR, QUOTE, LF,
                           COMMA, LF>>

\* the names of the header row are distinct
DistinctNames(hs) == \A a, b \in 1..Len(hs) : a # b => hs[a] # hs[b]

\* C18: positional header zip.  When readCsv has zipped the rows parseCsv
\* returned, there is one record per row after the header row, every record
\* has exactly the fields named in the header row, field i has the value of
\* cell i of its row, or the empty string when the row has fewer cells, and
\* the cells beyond the header's length are in no field.  Stated for header
\* rows whose names are distinct: a record holds one field per name.
C18_HeaderZip ==
    (mode = "text" /\ pcCsv = "done" /\ Len(rows) > 0 /\ DistinctNames(rows[1])) =>
        /\ Len(decoded) = Len(rows) - 1
        /\ \A k \in 1..Len(decoded) :
              /\ DOMAIN decoded[k] = Range(rows[1])
              /\ \A c \in 1..Len(rows[1]) :
                    decoded[k][rows[1][c]]
                        = IF c <= Len(rows[k + 1]) THEN rows[k + 1][c] ELSE <<>>

----------------------------------------------------------------------------
(* Claims about the loaders and the cross-check *)

\* the normalized key of a record: its name trimmed and lower-cased
NormKey(record) == ToLowerCase(Trim(Or(Get(record, "name"), <<>>)))

\* the distinct non-empty normalized keys of a list of records
KeysOf(rs) == {NormKey(rs[k]) : k \in 1..Len(rs)} \ {<<>>}

\* the first record, in file order, with the given key
FirstWith(rs, key) ==
    rs[CHOOSE k \in 1..Len(rs) :
          /\ NormKey(rs[k]) = key
          /\ \A m \in 1..(k - 1) : NormKey(rs[m]) # key]

\* a loader returned this mapping for these records: one entry per distinct
\* key, holding the first record with that key
FirstWins(mapping, rs) ==
    /\ DOMAIN mapping = KeysOf(rs)
    /\ Cardinality(DOMAIN mapping) = Cardinality(KeysOf(rs))
    /\ \A key \in DOMAIN mapping : mapping[key] = FirstWith(rs, key)

GithubLoadEnded == pcJoin \in {"loadGitlab", "compare", "done"} \/ thrown # "none"
GitlabLoadEnded == pcJoin \in {"compare", "done"} \/ thrown = "loadGitlabReport"

\* C3: dedup.  Once a loader has ended on a list of records, it has returned
\* a mapping with exactly one entry per distinct non-empty normalized key,
\* the first record in file order with that key.
C3_Dedup ==
    /\ GithubLoadEnded =>
          thrown # "loadGithubReport" /\ FirstWins(github, githubRecords)
    /\ GitlabLoadEnded =>
          thrown # "loadGitlabReport" /\ FirstWins(gitlab, gitlabRecords)

\* the records of a list that have the given key, in file order
Occurrences(rs, key) == SelectSeq(rs, LAMBDA r : NormKey(r) = key)

\* the side-list of a loader agrees with its mapping: a listed key has its
\* one canonical entry, the first occurrence, and its list holds the later
\* occurrences and nothing else
SideListSound(mapping, duplicates, rs) ==
    /\ DOMAIN duplicates \subseteq DOMAIN mapping
    /\ \A key \in DOMAIN duplicates :
          /\ Cardinality({k \in DOMAIN mapping : k = key}) = 1
          /\ mapping[key] = Head(Occurrences(rs, key))
          /\ duplicates[key] = Tail(Occurrences(rs, key))
          /\ Len(duplicates[key]) = Len(Occurrences(rs, key)) - 1

\* C13: duplicate side-list invariant.  Once a loader has processed its
\* records, every key of its duplicates side-list has exactly one entry in
\* its mapping, and the record stored for the key, its first occurrence, is
\* not among the key's duplicates, which are the later occurrences.
C13_SideList ==
    /\ (GithubLoadEnded /\ thrown # "loadGithubReport")
          => SideListSound(github, githubDuplicates, githubRecords)
    /\ (GitlabLoadEnded /\ thrown # "loadGitlabReport")
          => SideListSound(gitlab, gitlabDuplicates, gitlabRecords)

\* both loaders have listed duplicates, one key of the left twice
C13_Witness ==
    /\ pcJoin = "done"
    /\ \E key \in DOMAIN githubDuplicates : Len(githubDuplicates[key]) = 2
    /\ DOMAIN gitlabDuplicates # {}

\* C2: join completeness.  After compare, the keys of the left collection
\* absent on the right are the ones counted missing, the ones present on the
\* right are counted archived or not_archived, and the three counters add up
\* to total_github, the number of left keys.
C2_JoinComplete ==
    pcJoin = "done" =>
        /\ counters.total_github = Cardinality(DOMAIN github)
        /\ counters.missing = Cardinality(DOMAIN github \ DOMAIN gitlab)
        /\ counters.archived + counters.not_archived
               = Cardinality(DOMAIN github \cap DOMAIN gitlab)
        /\ counters.missing + counters.archived + counters.not_archived
               = counters.total_github

C2_Witness ==
    /\ pcJoin = "done"
    /\ counters.missing > 0
    /\ counters.archived > 0
    /\ counters.not_archived > 0

\* the rows of the output that belong to a key
RowsFor(key) ==
    {j \in 1..Len(compareRows) :
        ToLowerCase(Trim(compareRows[j].github_name)) = key}

\* the right record of a key says archived: "true" or "1" in any letter case
SaysArchived(key) ==
    ToLowerCase(String(Get(gitlab[key], "archived")))
        \in {<<"t", "r", "u", "e">>, <<"1">>}

ScenarioALeft == <<[name |-> <<"F", "o", "o">>], [name |-> BAR]>>

ScenarioARight ==
    <<[name |-> FOO, archived |-> <<"t", "r", "u", "e">>],
      [name |-> <<"B", "A", "R">>, archived |-> <<"f", "a", "l", "s", "e">>]>>

\* C10: archive classification.  A left key present on the right is counted
\* archived, without a row, exactly when the right record's archived value,
\* stringified and lower-cased, is "true" or "1"; otherwise it is counted
\* not_archived and has exactly one row, of status gitlab_not_archived.
\* Left Foo, bar and right foo (true), BAR (false) give archived = 1,
\* not_archived = 1, missing = 0 and the one row of bar.
C10_Classification ==
    pcJoin = "done" =>
        LET both == DOMAIN github \cap DOMAIN gitlab
        IN  /\ counters.archived = Cardinality({k \in both : SaysArchived(k)})
            /\ counters.not_archived = Cardinality({k \in both : ~SaysArchived(k)})
            /\ \A k \in both :
                  /\ Cardinality(RowsFor(k)) = IF SaysArchived(k) THEN 0 ELSE 1
                  /\ \A j \in RowsFor(k) : compareRows[j].status = NOT_ARCHIVED
            /\ (githubRecords = ScenarioALeft /\ gitlabRecords = ScenarioARight) =>
                  /\ counters.archived = 1
                  /\ counters.not_archived = 1
                  /\ counters.missing = 0
                  /\ Len(compareRows) = 1
                  /\ compareRows[1].github_name = BAR

C10_Witness ==
    /\ pcJoin = "done"
    /\ githubRecords = ScenarioALeft
    /\ gitlabRecords = ScenarioARight
    /\ Len(compareRows) = 1

\* the normalized key of the left record a row was made from
RowKey(j) == ToLowerCase(Trim(compareRows[j].github_name))

\* C11: emitted rows match the unresolved counter.  After compare, a left
\* key absent on the right has no row, a left key whose right record says
\* archived has no row, every other left key has exactly one row; the number
\* of rows equals the not_archived counter and the key of every row is a key
\* of both collections.
C11_RowsMatchCounter ==
    pcJoin = "done" =>
        /\ Len(compareRows) = counters.not_archived
        /\ \A j \in 1..Len(compareRows) :
              RowKey(j) \in DOMAIN github \cap DOMAIN gitlab
        /\ \A key \in DOMAIN github :
              Cardinality({j \in 1..Len(compareRows) : RowKey(j) = key})
                  = IF key \notin DOMAIN gitlab THEN 0
                    ELSE IF SaysArchived(key) THEN 0
                    ELSE 1

\* one left key is missing on the right, one is archived, one has its row
C11_Witness ==
    /\ pcJoin = "done"
    /\ counters.missing = 1
    /\ counters.archived = 1
    /\ counters.not_archived = 1
    /\ Len(compareRows) = 1
    /\ RowKey(1) \in DOMAIN gitlab

\* the orders in which the same rows can stand in a file
Shuffles(rs) ==
    {[k \in 1..Len(rs) |-> rs[f[k]]] : f \in Permutations(1..Len(rs))}

\* the rows of the output are in increasing order of normalized key
RowsSorted ==
    \A a, b \in 1..Len(compareRows) :
        a < b => StrLess(ToLowerCase(Trim(compareRows[a].github_name)),
                         ToLowerCase(Trim(compareRows[b].github_name)))

\* loading any shuffle of the two inputs and comparing gives the same rows
ShuffleStable ==
    \A ls \in Shuffles(githubRecords) : \A rs \in Shuffles(gitlabRecords) :
        compare(loadGithubReport(ls).repos, loadGitlabReport(rs).repos).rows
            = compareRows

\* no normalized key occurs twice in the list
NoRepeatedKey(rs) ==
    \A a, b \in 1..Len(rs) :
        (a # b /\ NormKey(rs[a]) # <<>>) => NormKey(rs[a]) # NormKey(rs[b])

\* C4 as stated: the rows are sorted by normalized key, and any permutation
\* of the left and right input rows gives the identical sequence of rows.
C4_AnyShuffle_AsStated ==
    pcJoin = "done" => RowsSorted /\ ShuffleStable

\* C4 amended: the rows are sorted by normalized key; and when no normalized
\* key occurs more than once within the left rows nor within the right rows,
\* any permutation of the input rows gives the identical sequence of rows.
C4_Ordering ==
    pcJoin = "done" =>
        /\ RowsSorted
        /\ (NoRepeatedKey(githubRecords) /\ NoRepeatedKey(gitlabRecords))
              => ShuffleStable

C4_Witness ==
    /\ pcJoin = "done"
    /\ Len(compareRows) >= 2
    /\ NoRepeatedKey(githubRecords)
    /\ NoRepeatedKey(gitlabRecords)
    /\ StrLess(NormKey(githubRecords[2]), NormKey(githubRecords[1]))

----------------------------------------------------------------------------
(* Claims about the enrichment pool *)

\* C5: exclusive claiming.  In every state of every interleaving, no index
\* has been claimed twice, no project has had more than one fetch issued in
\* the run, and no project has been written by two workers (nor by a worker
\* that did not claim it); when the call returns every index 0..n-1 has
\* been claimed by exactly one worker.
C5_ExclusiveClaim ==
    /\ \A j \in DOMAIN claimedBy :
          /\ Len(claimedBy[j]) <= 1
          /\ fetchesIssued[j] <= 1
          /\ Cardinality(writers[j]) <= 1
          /\ writers[j] \subseteq Range(claimedBy[j])
    /\ pcPool = "returned" => \A j \in DOMAIN claimedBy : Len(claimedBy[j]) = 1

C5_Witness ==
    /\ pcPool = "returned"
    /\ \E j, k \in DOMAIN claimedBy :
          /\ writers[j] # {}
          /\ writers[k] # {}
          /\ writers[j] # writers[k]

\* exactly one project's fetch throws, every other fetch gives a value
OneFailure ==
    /\ Cardinality({k \in DOMAIN responses : responses[k] = THROWS}) = 1
    /\ \A k \in DOMAIN responses :
          responses[k] # THROWS => Truthy(responses[k].last_repository_updated_at)

\* C6: failure isolation.  When exactly one fetch throws and the others give
\* a value, the call returns with the field set on every other project, the
\* field of the failing project still absent, one warning written for the
\* failing project and none for any other.
C6_FailureIsolation ==
    (pcPool = "returned" /\ OneFailure) =>
        \A k \in DOMAIN projects :
            IF responses[k] = THROWS
            THEN /\ ~Truthy(projects[k].last_repository_updated_at)
                 /\ warnings[k] = 1
            ELSE /\ Truthy(projects[k].last_repository_updated_at)
                 /\ warnings[k] = 0

\* concurrency 3, 10 projects, the 4th fails
C6_Witness ==
    /\ pcPool = "returned"
    /\ run = 1
    /\ env = <<"3">>
    /\ workerCount = 3
    /\ Len(projects) = 10
    /\ responses[4] = THROWS
    /\ OneFailure
    /\ warnings[4] = 1
    /\ \A k \in (1..10) \ {4} : projects[k].last_repository_updated_at = T1

\* C7: idempotence.  During a second call on the same list no fetch is issued
\* for a project whose field the first call left present, and when the second
\* call returns every project is as the first call left it.
C7_Idempotent ==
    run = 2 =>
        /\ \A k \in DOMAIN firstRun :
              Truthy(firstRun[k].last_repository_updated_at) => fetchesIssued[k] = 0
        /\ pcPool = "returned" => projects = firstRun

\* the second call has returned; the first call had filled one project, which
\* was not fetched again, and had left one without the field, which was
C7_Witness ==
    /\ run = 2
    /\ pcPool = "returned"
    /\ \E k \in DOMAIN firstRun :
          firstRun[k].last_repository_updated_at = T1 /\ fetchesIssued[k] = 0
    /\ \E k \in DOMAIN firstRun : fetchesIssued[k] = 1

\* the concurrency each value of GITLAB_DETAIL_CONCURRENCY asks for, as
\* parseInt reads it: not a number, or below 1, gives 8; above 16 gives 16
ExpectedConcurrency(e) ==
    CASE e = Undefined -> 8
      [] e = <<>> -> 8
      [] e = <<"3">> -> 3
      [] e = <<"1">> -> 1
      [] e = <<"0">> -> 8
      [] e = <<"-", "1">> -> 8
      [] e = <<"2", "0">> -> 16
      [] e = <<"x">> -> 8
      [] e = <<" ", "2", "x">> -> 2

\* C8: worker-count bound.  The number of workers started is min(C, n), with
\* C = 8 when the requested concurrency is not a number or below 1 and
\* min(requested, 16) otherwise; never more than 16, nor more than n, fetches
\* are in flight.
C8_WorkerCount ==
    pcPool \in {"start", "await", "returned"} =>
        /\ workerCount = Min(ExpectedConcurrency(env), Len(projects))
        /\ DOMAIN wpc = 1..workerCount
        /\ started <= workerCount
        /\ pcPool \in {"await", "returned"} => started = workerCount
        /\ \A w \in DOMAIN wpc : wpc[w] # "unstarted" <=> w <= started
        /\ Cardinality(InFlight) <= 16
        /\ Cardinality(InFlight) <= Len(projects)

\* 20 workers requested for 17 projects: 16 are started
C8_Witness ==
    /\ pcPool = "await"
    /\ env = <<"2", "0">>
    /\ Len(projects) = 17
    /\ started = 16
    /\ Cardinality(InFlight) >= 2

\* C19: progress cadence of the enrichment pool.  When a call in which a
\* detail was fetched has returned, a progress line has been written for
\* every 25th completion and the last line written is the one of the final
\* completion, also for a list in which some projects already have the field
\* and are skipped.
C19_ProgressCadence ==
    (pcPool = "returned" /\ fetched > 0) =>
        /\ \A f \in 1..fetched : f % 25 = 0 => f \in Range(progress)
        /\ progress # <<>>
        /\ progress[Len(progress)] = fetched

\* exactly one request never completes
OneHang == Cardinality({k \in DOMAIN responses : responses[k] = HANGS}) = 1

\* the cursor is past the end and every project other than the hung one has
\* been claimed once and is no longer awaited: it was skipped or its fetch
\* has settled
Drained ==
    /\ index >= Len(projects)
    /\ \A k \in DOMAIN projects :
          responses[k] # HANGS =>
              /\ Len(claimedBy[k]) = 1
              /\ \A w \in InFlight : currentIndex[w] + 1 # k

\* C20: a hung fetch stalls only its own worker.  With at least two workers
\* and exactly one request that never completes, the other workers go on
\* claiming: eventually the cursor is past the end of the list and every
\* other project has been claimed and processed, fetched or skipped.
C20_HungFetch ==
    (OneHang /\ WorkerCount(env, Len(projects)) >= 2) ~> Drained

\* two workers, three projects, the first request hangs: the second worker
\* has fetched the two others and returned
C20_Witness ==
    /\ OneHang
    /\ responses[1] = HANGS
    /\ Len(projects) = 3
    /\ workerCount = 2
    /\ Drained
    /\ InFlight = {1}
    /\ writers[2] = {2}
    /\ writers[3] = {2}

\* C21: enrichment preserves the collection's shape.  No step of any
\* interleaving adds, removes or reorders projects: the list keeps its length
\* and project k keeps its id and its fields; the only fields a step changes
\* are last_repository_updated_at and, only when the project had none (its
\* value was falsy), last_activity_at.
C21_Frame ==
    [][/\ Len(projects') = Len(projects)
       /\ \A k \in 1..Len(projects) :
             /\ DOMAIN projects'[k] = DOMAIN projects[k]
             /\ projects'[k].id = projects[k].id
             /\ projects'[k].last_activity_at # projects[k].last_activity_at
                   => ~Truthy(projects[k].last_activity_at)]_vars

\* the call has returned after three fetches by more than one worker: the
\* projects stand in the order given, one has got both fields, one has kept
\* the last_activity_at it had
C21_Witness ==
    /\ pcPool = "returned"
    /\ run = 1
    /\ Len(projects) = 3
    /\ \A k \in 1..3 : projects[k].id = k
    /\ projects[1].last_repository_updated_at = T1
    /\ projects[1].last_activity_at = A1
    /\ projects[2].last_repository_updated_at = T1
    /\ projects[2].last_activity_at = A0
    /\ writers[1] # writers[2]
    /\ fetched = 3

----------------------------------------------------------------------------
(* Claims about the staleness comparison *)

\* a timestamp is known when it is present and Date can parse it
Known(timestamp) == Truthy(timestamp) /\ ~DateTime(timestamp).nan

\* the left records matched on the right: their key is the key of a right record
MatchedRepos ==
    {k \in 1..Len(githubRecords) :
        NormKey(githubRecords[k]) \in KeysOf(gitlabRecords)}

\* the outcome of the pair of a left record and its right record
OutcomeOf(repo, project) ==
    LET left == getGithubTimestamp(repo)
        right == pickGitlabTimestamp(project)
    IN  IF ~Known(left) /\ ~Known(right) THEN "unknown_timestamps"
        ELSE IF ~Known(left) THEN "gitlab_has_timestamp_only"
        ELSE IF ~Known(right) THEN "github_has_timestamp_only"
        ELSE IF DateTime(right).n > DateTime(left).n THEN "gitlab_newer"
        ELSE "github_newer_or_equal"

ExpectedOutcome(k) ==
    OutcomeOf(githubRecords[k],
              FirstWith(gitlabRecords, NormKey(githubRecords[k])))

Outcomes ==
    {"unknown_timestamps", "gitlab_has_timestamp_only", "github_has_timestamp_only",
     "gitlab_newer", "github_newer_or_equal"}

\* C12: staleness classification.  When compareLastChanges has returned,
\* every left record matched on the right has been classified into exactly
\* one of the five outcomes, the one its two timestamps give when an absent
\* or unparsable timestamp counts as unknown: every result carries one of the
\* five tags, and for every matched key each tag is carried by as many
\* results of that key as there are left records of that key with that outcome.
C12_FiveWay ==
    pcStale = "done" =>
        /\ \A j \in 1..Len(results) : results[j].status \in Outcomes
        /\ \A k \in MatchedRepos : \A t \in Outcomes :
              Cardinality({j \in 1..Len(results) :
                              /\ ToLowerCase(results[j].name) = NormKey(githubRecords[k])
                              /\ results[j].status = t})
                  = Cardinality({m \in MatchedRepos :
                                    /\ NormKey(githubRecords[m]) = NormKey(githubRecords[k])
                                    /\ ExpectedOutcome(m) = t})

\* the key of the left record a result was made from
ResultKey(j) == ToLowerCase(results[j].name)

\* C22: deterministic ordering in the staleness variant.  When
\* compareLastChanges has returned, its results stand in lexicographic order
\* of the left key (the trimmed, lower-cased name), and the same left rows in
\* any other order give the same sequence of results.  Stated for left rows
\* whose keys are distinct.
C22_SortedResults ==
    (pcStale = "done" /\ NoRepeatedKey(githubRecords)) =>
        /\ \A a, b \in 1..Len(results) : a < b => StrLess(ResultKey(a), ResultKey(b))
        /\ \A ls \in Shuffles(githubRecords) :
              compareLastChanges(ls, gitlabRecords).results = results

----------------------------------------------------------------------------
(* Claims about the project listing *)

\* a response gitlabGet resolves and JSON.parse reads
Successful(response) == ~Rejected(response) /\ response.body.json

\* a header value that is a positive integer in decimal digits
IsPositiveInteger(h) ==
    /\ h # <<>>
    /\ \A k \in 1..Len(h) : IsDigit(h[k])
    /\ DigitsValue(0, h) >= 1

\* a header value that is not a positive integer and that parseInt reads as
\* one all the same, such as 2x
Lenient(h) == Truthy(h) /\ ~IsPositiveInteger(h) /\ ~StopsAt(ParseInt(h))

\* the responses the listing stops at: not a non-empty array, or no
\* x-next-page header that is a positive integer
StopsAsStated(response) ==
    \/ ~(response.body.array /\ Len(response.body.data) > 0)
    \/ ~IsPositiveInteger(response.nextPage)

\* C23: pagination without repeats.  Whatever the server answers, with
\* projects on finitely many pages only, fetchProjects never requests the
\* same page number twice, goes on after every response but the first one that
\* is not a non-empty array or whose x-next-page header is absent or not a
\* positive integer, returns there, and returns the records of the fetched
\* pages one after the other in the order they were fetched.  Stated for
\* responses that are successful, are JSON, and carry no x-next-page value
\* that parseInt reads more leniently than the digits it consists of; the
\* call that repeats a page is the one that does not end.
C23_Pagination ==
    (\A k \in 1..Len(replies) :
         Successful(replies[k]) /\ ~Lenient(replies[k].nextPage)) =>
        /\ \A a, b \in 1..Len(requested) : a < b => requested[a] # requested[b]
        /\ \A k \in 1..Len(replies) :
              StopsAsStated(replies[k]) <=> (k = Len(replies) /\ pcPages = "returned")
        /\ pcPages = "returned" =>
              projectRecords = Flatten([k \in 1..Len(replies) |-> replies[k].body.data])

====
